---- MODULE Spec2Model ----
(***************************************************************************)
(* A model of midify.py: the MusixTeX-to-MIDI converter.                   *)
(*                                                                         *)
(* Text is modelled as sequences of one-character strings, so that the     *)
(* regular expressions, parseArgs, chr/ord arithmetic and the byte         *)
(* encoders are computed as the code computes them.  A Python None is the  *)
(* value None.  The list object held in Accidentals.explicitNaturals is    *)
(* modelled as a reference into the heap `lists`, because                  *)
(* Accidentals.fromGlobalAndLocal shares that list between the local scope *)
(* and the notes (sharps and flats are copied by list concatenation).      *)
(***************************************************************************)
EXTENDS Integers, Sequences, FiniteSets, TLC

(***************************************************************************)
(* Bounds of the model.                                                    *)
(***************************************************************************)
MaxElements == 2    \* elements of a document's content after the leading one
MaxCalls == 4       \* calls in a BeamNote call sequence (SpecBeam)
MaxOffset == 50     \* the offsets given to Pitch.fromNum are -MaxOffset..MaxOffset (SpecPitch)
MaxQuantity == 2097151  \* the deltas and durations given to the encoders (SpecVlq)
MaxNotes == 2       \* Notes of a note list given to the encoder (SpecEncoder)

(***************************************************************************)
(* Characters and strings.                                                 *)
(***************************************************************************)
AsciiChars ==
    << " ", "!", "\"", "#", "$", "%", "&", "'", "(", ")", "*", "+",
       ",", "-", ".", "/", "0", "1", "2", "3", "4", "5", "6", "7",
       "8", "9", ":", ";", "<", "=", ">", "?", "@", "A", "B", "C",
       "D", "E", "F", "G", "H", "I", "J", "K", "L", "M", "N", "O",
       "P", "Q", "R", "S", "T", "U", "V", "W", "X", "Y", "Z", "[",
       "\\", "]", "^", "_", "grave", "a", "b", "c", "d", "e", "f", "g",
       "h", "i", "j", "k", "l", "m", "n", "o", "p", "q", "r", "s",
       "t", "u", "v", "w", "x", "y", "z", "{", "|", "}", "~" >>

\* ord(c) and chr(n) on the printable ASCII range 32..126 (code 96, the grave
\* accent, is spelled out: no text of the model uses it)
Ord(c) == 31 + (CHOOSE i \in 1..Len(AsciiChars) : AsciiChars[i] = c)

Chr(n) == AsciiChars[n - 31]

\* Python None
None == -1

IsLetter(c) == (Ord(c) >= 65 /\ Ord(c) <= 90) \/ (Ord(c) >= 97 /\ Ord(c) <= 122)

IsDigit(c) == Ord(c) >= 48 /\ Ord(c) <= 57

LowerChar(c) == IF Ord(c) >= 65 /\ Ord(c) <= 90 THEN Chr(Ord(c) + 32) ELSE c

\* str.lower()
Lower(s) == [i \in 1..Len(s) |-> LowerChar(s[i])]

\* s[n:]
Drop(s, n) == IF n >= Len(s) THEN << >> ELSE SubSeq(s, n + 1, Len(s))

\* x in list
InList(x, list) == \E i \in 1..Len(list) : list[i] = x

\* "sub" in s
Contains(s, sub) ==
    \E i \in 1..(Len(s) - Len(sub) + 1) : SubSeq(s, i, i + Len(sub) - 1) = sub

\* content.split('\\') of a text held as a character sequence
RECURSIVE SplitFrom(_, _, _)
SplitFrom(s, i, current) ==
    IF i > Len(s) THEN << current >>
    ELSE IF s[i] = "\\" THEN << current >> \o SplitFrom(s, i + 1, << >>)
    ELSE SplitFrom(s, i + 1, Append(current, s[i]))

Split(s) == SplitFrom(s, 1, << >>)

\* re.search(r"([a-zA-Z]+)", element) is not None
HasCommandName(text) == \E i \in 1..Len(text) : IsLetter(text[i])

\* re.search(r"([a-zA-Z]+)", element).group(1): the first maximal run of letters
CommandName(text) ==
    LET first == CHOOSE i \in 1..Len(text) :
                    /\ IsLetter(text[i])
                    /\ \A j \in 1..(i - 1) : ~IsLetter(text[j])
        last == CHOOSE j \in first..Len(text) :
                    /\ \A k \in first..j : IsLetter(text[k])
                    /\ (j = Len(text) \/ ~IsLetter(text[j + 1]))
    IN SubSeq(text, first, last)

\* parseArgs
RECURSIVE ParseArgsFrom(_, _, _, _, _)
ParseArgsFrom(s, i, args, current, inBraces) ==
    IF i > Len(s) THEN args
    ELSE IF s[i] = "{" THEN ParseArgsFrom(s, i + 1, args, current, inBraces + 1)
    ELSE IF s[i] = "}" THEN
        IF inBraces - 1 = 0
        THEN ParseArgsFrom(s, i + 1, Append(args, current), << >>, 0)
        ELSE ParseArgsFrom(s, i + 1, args, current, inBraces - 1)
    ELSE IF inBraces > 0
        THEN ParseArgsFrom(s, i + 1, args, Append(current, s[i]), inBraces)
    ELSE ParseArgsFrom(s, i + 1, Append(args, << s[i] >>), current, inBraces)

ParseArgs(s) == ParseArgsFrom(s, 1, << >>, << >>, 0)

\* isNumber: the pattern ^-?\d+$
IsNumber(s) ==
    LET digits == IF Len(s) > 0 /\ s[1] = "-" THEN Drop(s, 1) ELSE s
    IN Len(digits) > 0 /\ \A i \in 1..Len(digits) : IsDigit(digits[i])

\* int(s) for a string isNumber accepts
RECURSIVE DigitsValue(_, _)
DigitsValue(s, acc) ==
    IF s = << >> THEN acc ELSE DigitsValue(Tail(s), 10 * acc + (Ord(Head(s)) - 48))

ToInt(s) == IF s[1] = "-" THEN 0 - DigitsValue(Drop(s, 1), 0) ELSE DigitsValue(s, 0)

(***************************************************************************)
(* Pitch.  A Pitch is its value, a string.                                 *)
(***************************************************************************)
\* Pitch.fromNum raises RuntimeError
FromNumRaises(num) == ~(-5 < num /\ num < 22) /\ ~(num < -4)

\* Pitch.fromNum, where it returns
FromNum(num) ==
    IF -5 < num /\ num < 22 THEN << Chr(Ord("e") + num) >>
    ELSE << Chr(Ord("N") + (num + 5)) >>

FromLetter(letter) == letter

AutoPitchRaises(s) == IsNumber(s) /\ FromNumRaises(ToInt(s))

AutoPitch(s) == IF IsNumber(s) THEN FromNum(ToInt(s)) ELSE FromLetter(s)

RECURSIVE PitchesFromNums(_)
PitchesFromNums(nums) ==
    IF nums = << >> THEN << >>
    ELSE << FromNum(Head(nums)) >> \o PitchesFromNums(Tail(nums))

SHARPS == PitchesFromNums(<< 8, 5, 9, 6, 3, 7, 4 >>)

FLATS == PitchesFromNums(<< 4, 7, 3, 6, 2, 5, 1 >>)

\* list[:n] for n >= 0
Prefix(list, n) == SubSeq(list, 1, IF n < Len(list) THEN n ELSE Len(list))

(***************************************************************************)
(* Note.                                                                   *)
(***************************************************************************)
ConvLetters ==
    << "A", "B", "C", "D", "E", "F", "G", "H", "I", "J", "K", "L", "M", "N",
       "a", "b", "c", "d", "e", "f", "g", "h", "i", "j", "k", "l", "m", "n",
       "o", "p", "q", "r", "s", "t", "u", "v", "w", "x", "y", "z" >>

ConvValues ==
    << 21, 23, 24, 26, 28, 29, 31, 33, 35, 36, 38, 40, 41, 43,
       45, 47, 48, 50, 52, 53, 55, 57, 59, 60, 62, 64, 65, 67,
       69, 71, 72, 74, 76, 77, 79, 81, 83, 84, 86, 88 >>

\* conv[pitch.value] raises KeyError
ConvRaises(pitch) == ~(Len(pitch) = 1 /\ InList(pitch[1], ConvLetters))

Conv(pitch) == ConvValues[CHOOSE i \in 1..Len(ConvLetters) : ConvLetters[i] = pitch[1]]

\* Note.__init__: dynamics clamped to 0..127
ClampDynamics(dynamics) ==
    LET low == IF dynamics < 127 THEN dynamics ELSE 127
    IN IF low > 0 THEN low ELSE 0

\* toMidiPitch with the sharps tested before the explicit naturals
ToMidiPitchSharpsFirst(note, heap) ==
    LET base == Conv(note.pitch)
    IN IF InList(note.pitch, note.sharps) THEN base + 1
       ELSE IF InList(note.pitch, heap[note.explicitNaturals]) THEN base
       ELSE IF InList(note.pitch, note.flats) THEN base - 1
       ELSE base

\* Note.toMidiPitch; heap holds the explicitNaturals lists
ToMidiPitch(note, heap) ==
    LET base == Conv(note.pitch)
    IN IF InList(note.pitch, heap[note.explicitNaturals]) THEN base
       ELSE IF InList(note.pitch, note.sharps) THEN base + 1
       ELSE IF InList(note.pitch, note.flats) THEN base - 1
       ELSE base

\* prevNote is None; a note n is passed as << n >>
NoNote == << >>

\* the while loop of startMidiBytes and endMidiBytes
RECURSIVE VlqPrefix(_, _)
VlqPrefix(value, suffix) ==
    IF value > 0 THEN VlqPrefix(value \div 128, << (value % 128) + 128 >> \o suffix)
    ELSE suffix

\* startMidiBytes with the one-byte case taken up to and including 128
StartMidiBytesUpTo128(note, prevNote) ==
    IF prevNote # NoNote THEN
        LET delta == note.start - (prevNote[1].start + prevNote[1].duration)
        IN IF delta <= 128 THEN << delta >>
           ELSE VlqPrefix(delta \div 128, << delta % 128 >>)
    ELSE << 0 >>

StartMidiBytes(note, prevNote) ==
    IF prevNote # NoNote THEN
        LET delta == note.start - (prevNote[1].start + prevNote[1].duration)
        IN IF delta < 128 THEN << delta >>
           ELSE VlqPrefix(delta \div 128, << delta % 128 >>)
    ELSE << 0 >>

EndMidiBytes(note) ==
    IF note.duration < 128 THEN << note.duration >>
    ELSE VlqPrefix(note.duration \div 128, << note.duration % 128 >>)

\* toMidiBytes with the Note-Off released at velocity 0
ToMidiBytesOffAtZero(note, prevNote, heap) ==
    LET pitch == ToMidiPitch(note, heap)
    IN StartMidiBytes(note, prevNote) \o << 144, pitch, note.dynamics >>
       \o EndMidiBytes(note) \o << 128, pitch, 0 >>

ToMidiBytes(note, prevNote, heap) ==
    LET pitch == ToMidiPitch(note, heap)
    IN StartMidiBytes(note, prevNote) \o << 144, pitch, note.dynamics >>
       \o EndMidiBytes(note) \o << 128, pitch, note.dynamics >>

(***************************************************************************)
(* BeamNote: the two class-level dicts, as functions on their key sets.    *)
(***************************************************************************)
\* dict.get(key)
DictGet(dict, key) == IF key \in DOMAIN dict THEN dict[key] ELSE None

\* dict[key] = value
DictSet(dict, key, value) ==
    [k \in (DOMAIN dict) \cup {key} |-> IF k = key THEN value ELSE dict[k]]

\* BeamNote.beamTicks: the result, and lastTicks after the call
BeamTicksResult(last, next, beam) == DictGet(last, beam)

\* beamTicks without the assignment of line 15: the read consumes nothing
BeamTicksLastKept(last, next, beam) == last

BeamTicksLast(last, next, beam) == DictSet(last, beam, DictGet(next, beam))

\* BeamNote.ticksImmediate
TicksImmediateNext(next, beam, ticks) == DictSet(next, beam, ticks)

\* ticksImmediate without the assignment of line 20: only the next duration is set
TicksImmediateLastUnset(last, beam, ticks) == last

TicksImmediateLast(last, beam, ticks) == DictSet(last, beam, ticks)

\* BeamNote.ticksNext
TicksNextNext(next, beam, ticks) == DictSet(next, beam, ticks)

(***************************************************************************)
(* The command names main() compares against.                              *)
(***************************************************************************)
\* the names of line 233
GroupSeparators ==
    << << >>,
       << "n", "o", "t", "e", "s" >>,
       << "n", "o", "t", "e", "s", "p" >>,
       << "n", "n", "o", "t", "e", "s" >>,
       << "n", "n", "n", "o", "t", "e", "s" >> >>

\* the names of line 237
MeasureSeparators ==
    << << "e", "n" >>,
       << "x", "b", "a", "r" >>,
       << "a", "l", "a", "l", "i", "g", "n", "e" >> >>

\* the names of line 242
EighthNames ==
    << << "c", "l" >>,
       << "c", "u" >>,
       << "c", "a" >> >>

\* the names of line 247
DottedEighthNames ==
    << << "c", "l", "p" >>,
       << "c", "u", "p" >>,
       << "c", "a", "p" >> >>

\* the names of line 252
QuarterNames ==
    << << "q", "l" >>,
       << "q", "u" >>,
       << "q", "a" >> >>

\* the names of line 257
DottedQuarterNames ==
    << << "q", "l", "p" >>,
       << "q", "u", "p" >>,
       << "q", "a", "p" >> >>

\* the names of line 262
HalfNames ==
    << << "h", "l" >>,
       << "h", "u" >>,
       << "h", "a" >> >>

\* the names of line 267
DottedHalfNames ==
    << << "h", "l", "p" >>,
       << "h", "u", "p" >>,
       << "h", "a", "p" >> >>

\* the names of line 272
WholeNames ==
    << << "w", "h" >> >>

\* the names of line 277
SharpName ==
    << << "s", "h" >> >>

\* the names of line 280
FlatName ==
    << << "f", "l" >> >>

\* the names of line 283
NaturalName ==
    << << "n", "a" >> >>

\* the names of line 286
DqbNames ==
    << << "D", "q", "b", "l" >>,
       << "D", "q", "b", "u" >> >>

\* the names of line 295
TqbNames ==
    << << "T", "q", "b", "l" >>,
       << "T", "q", "b", "u" >> >>

\* the names of line 306
QqbNames ==
    << << "Q", "q", "b", "l" >>,
       << "Q", "q", "b", "u" >> >>

\* the names of line 315
DqbbNames ==
    << << "D", "q", "b", "b", "l" >>,
       << "D", "q", "b", "b", "u" >> >>

\* the names of line 322
TqbbNames ==
    << << "T", "q", "b", "b", "l" >>,
       << "T", "q", "b", "b", "u" >> >>

\* the names of line 330
QqbbNames ==
    << << "Q", "q", "b", "b", "l" >>,
       << "Q", "q", "b", "b", "u" >> >>

\* the names of line 339
BeamStart32Names ==
    << << "i", "b", "u" >>,
       << "i", "b", "l" >>,
       << "I", "b", "u" >>,
       << "I", "b", "l" >> >>

\* the names of line 341
BeamEnd32Names ==
    << << "t", "b", "u" >>,
       << "t", "b", "l" >> >>

\* the names of line 343
BeamStart16Names ==
    << << "i", "b", "b", "u" >>,
       << "i", "b", "b", "l" >>,
       << "I", "b", "b", "u" >>,
       << "I", "b", "b", "l" >>,
       << "n", "b", "b", "u" >>,
       << "n", "b", "b", "l" >> >>

\* the names of line 346
BeamEnd16Names ==
    << << "t", "b", "b", "u" >>,
       << "t", "b", "b", "l" >> >>

\* the names of line 348
BeamNoteNames ==
    << << "q", "b" >> >>

\* the names of line 353
DottedBeamNoteNames ==
    << << "q", "b", "p" >> >>

\* the names of line 358
RepeatWord ==
    << << "r", "e", "p", "e", "a", "t" >> >>

\* the names of line 361
SlurNames ==
    << << "s", "l", "u", "r" >>,
       << "t", "s", "l", "u", "r" >>,
       << "i", "s", "l", "u", "r", "u" >>,
       << "i", "s", "l", "u", "r", "d" >> >>

\* the names of line 363
SkipNames ==
    << << "s", "k" >>,
       << "h", "s", "k" >> >>


(***************************************************************************)
(* The elements a document's content is drawn from: content is what        *)
(* split('\\') gives for the music body, so each element is the text       *)
(* between two backslashes.                                                *)
(***************************************************************************)
Vocabulary ==
    { << "N", "o", "t", "e", "s" >>,
      << "e", "n" >>,
      << "|" >>,
      << "c", "l", "{", "0", "}" >>,
      << "c", "l", "{", "2", "}" >>,
      << "c", "l", "{", "m", "}" >>,
      << "c", "l", "{", "2", "2", "}" >>,
      << "c", "l", "p", "{", "0", "}" >>,
      << "q", "u", "{", "Z", "}" >>,
      << "q", "l", "p", "{", "0", "}" >>,
      << "h", "l", "{", "4", "}" >>,
      << "h", "l", "p", "{", "0", "}" >>,
      << "w", "h", "{", "m", "}" >>,
      << "s", "h", "{", "0", "}" >>,
      << "f", "l", "{", "0", "}" >>,
      << "n", "a", "{", "m", "}" >>,
      << "n", "a", "{", "4", "}" >>,
      << "D", "q", "b", "l", "{", "0", "}", "{", "m", "}" >>,
      << "D", "q", "b", "u", "{", "0", "m", "}" >>,
      << "D", "q", "b", "l", "{", "{", "-", "1", "}", "{", "0", "}", "}" >>,
      << "T", "q", "b", "l", "{", "0", "}", "{", "2", "}", "{", "m", "}" >>,
      << "Q", "q", "b", "l", "{", "0", "}", "{", "2", "}", "{", "4", "}", "{", "m", "}" >>,
      << "D", "q", "b", "b", "u", "{", "0", "m", "}" >>,
      << "T", "q", "b", "b", "u", "{", "0", "2", "m", "}" >>,
      << "Q", "q", "b", "b", "l", "{", "0", "}", "{", "2", "}", "{", "4", "}", "{", "m", "}" >>,
      << "i", "b", "u", "0" >>,
      << "t", "b", "u", "0" >>,
      << "i", "b", "b", "u", "0" >>,
      << "t", "b", "b", "u", "0" >>,
      << "q", "b", "0", "{", "0", "}" >>,
      << "q", "b", "1", "m" >>,
      << "q", "b", "p", "0", "m" >>,
      << "l", "e", "f", "t", "r", "e", "p", "e", "a", "t" >>,
      << "t", "s", "l", "u", "r", "0" >>,
      << "s", "k" >>,
      << "f", "o", "o", "b", "a", "r", "{", "x", "}" >> }

\* The music body starts with a command, hence with a backslash: the first
\* element split gives is the text before it.
LeadingElement == Head(Split(<< "\\" >>))

Elements == Vocabulary \cup {LeadingElement}

\* The branch of the loop body an element takes, lines 233-366.
Branch(el) ==
    IF InList(Lower(el), GroupSeparators) THEN "group"
    ELSE IF InList(Lower(el), MeasureSeparators) THEN "measure"
    ELSE IF ~HasCommandName(el) THEN "nomatch"
    ELSE LET commandName == CommandName(el)
         IN IF InList(commandName, EighthNames) THEN "eighth"
            ELSE IF InList(commandName, DottedEighthNames) THEN "dottedEighth"
            ELSE IF InList(commandName, QuarterNames) THEN "quarter"
            ELSE IF InList(commandName, DottedQuarterNames) THEN "dottedQuarter"
            ELSE IF InList(commandName, HalfNames) THEN "half"
            ELSE IF InList(commandName, DottedHalfNames) THEN "dottedHalf"
            ELSE IF InList(commandName, WholeNames) THEN "whole"
            ELSE IF commandName = SharpName[1] THEN "sh"
            ELSE IF commandName = FlatName[1] THEN "fl"
            ELSE IF commandName = NaturalName[1] THEN "na"
            ELSE IF InList(commandName, DqbNames) THEN "Dqb"
            ELSE IF InList(commandName, TqbNames) THEN "Tqb"
            ELSE IF InList(commandName, QqbNames) THEN "Qqb"
            ELSE IF InList(commandName, DqbbNames) THEN "Dqbb"
            ELSE IF InList(commandName, TqbbNames) THEN "Tqbb"
            ELSE IF InList(commandName, QqbbNames) THEN "Qqbb"
            ELSE IF InList(commandName, BeamStart32Names) THEN "ib"
            ELSE IF InList(commandName, BeamEnd32Names) THEN "tb"
            ELSE IF InList(commandName, BeamStart16Names) THEN "ibb"
            ELSE IF InList(commandName, BeamEnd16Names) THEN "tbb"
            ELSE IF InList(commandName, BeamNoteNames) THEN "qb"
            ELSE IF InList(commandName, DottedBeamNoteNames) THEN "qbp"
            ELSE IF Contains(commandName, RepeatWord[1]) THEN "repeat"
            ELSE IF InList(commandName, SlurNames) THEN "slur"
            ELSE IF InList(commandName, SkipNames) THEN "skip"
            ELSE "unknown"

\* argsPart, line 241
ArgsPart(el) == ParseArgs(Drop(el, Len(CommandName(el))))

BranchOf == [el \in Elements |-> Branch(el)]

ArgsOf == [el \in Elements |-> IF HasCommandName(el) THEN ArgsPart(el) ELSE << >>]

(***************************************************************************)
(* Velocity arithmetic.  For the integers 0..127, floor(v / 1.3) and       *)
(* floor(v + 0.8*(127 - v)) in double precision equal the integer          *)
(* quotients below.                                                        *)
(***************************************************************************)
\* velocity = floor(velocity / 1.3)
Decay(v) == (10 * v) \div 13

\* the recovery moving half of the way to 127 instead of 80%
RecoverHalfway(v) == (10 * v + 5 * (127 - v)) \div 10

\* velocity = floor(velocity + 0.8*(127 - velocity))
Recover(v) == (10 * v + 8 * (127 - v)) \div 10

\* step = (random.random() - 0.5) / 2 lies in [-0.25, 0.25); the model draws
\* step = n / JitterDenominator for n in JitterSteps (dyadic, so the double
\* precision products are exact)
JitterDenominator == 64

JitterSteps == { -16, 0, 15 }

\* velocity_step without its first line: the jitter applied to the velocity
\* as it came in
VelocityStepNoDecay(v, n) ==
    IF n > 0
    THEN (JitterDenominator * v + n * (127 - v)) \div JitterDenominator
    ELSE (JitterDenominator * v - n * v) \div JitterDenominator

\* velocity_step, with the drawn step n / JitterDenominator
VelocityStep(v, n) ==
    LET decayed == Decay(v)
    IN IF n > 0
       THEN (JitterDenominator * decayed + n * (127 - decayed)) \div JitterDenominator
       ELSE (JitterDenominator * decayed - n * decayed) \div JitterDenominator

\* the fixed dynamics of the Qqbl/Qqbu notes, lines 309-312
Ladder == << 127, 96, 76, 64 >>

\* the default of Note.__init__'s dynamics parameter, line 62
DefaultDynamics == 64

\* file_map.keys(): the run is over a directory of two documents
FileNames == << "a.tex", "b.tex" >>

\* the beam ids and the signatures the documents of the model use
BeamIds == { 0, 1 }

Signatures == { -1, 0, 1 }

(***************************************************************************)
(* State.                                                                  *)
(***************************************************************************)
VARIABLES
    pc,                 \* where main() is: "idle" (top of the loop over file_map),
                        \* "interp" (in the loop over content), "crashed" (an
                        \* exception left main), "finished"
    started,            \* documents the loop over file_map has taken
    globalAccidentals,  \* [sharps, flats]
    localAccidentals,   \* [sharps, flats, explicitNaturals]; explicitNaturals
                        \* is a reference into lists
    lists,              \* the explicitNaturals list objects of this document
    deltatime,
    velocity,
    notes,
    element,            \* the loop variable of `for element in content`
    idx,                \* elements of content the loop has taken
    lastTicks,          \* BeamNote.lastTicks
    nextTicks,          \* BeamNote.nextTicks
    bodyBytes,
    calls               \* SpecBeam: the calls made on BeamNote and their results

vars == << pc, started, globalAccidentals, localAccidentals, lists,
           deltatime, velocity, notes, element, idx, lastTicks, nextTicks,
           bodyBytes, calls >>

batchVars == << started, bodyBytes, calls >>

beamVars == << lastTicks, nextTicks >>

Init ==
    /\ pc = "idle"
    /\ started = 0
    /\ globalAccidentals = [sharps |-> << >>, flats |-> << >>]
    /\ localAccidentals = [sharps |-> << >>, flats |-> << >>, explicitNaturals |-> 1]
    /\ lists = << << >> >>
    /\ deltatime = 0
    /\ velocity = 64
    /\ notes = << >>
    /\ element = << >>
    /\ idx = 0
    /\ lastTicks = (0 :> 32)
    /\ nextTicks = (0 :> 32)
    /\ bodyBytes = << >>
    /\ calls = << >>

(***************************************************************************)
(* The loop over file_map, lines 199-231.                                  *)
(***************************************************************************)
\* lines 220-225
GlobalFromSignature(signature) ==
    IF signature > 0 THEN [sharps |-> Prefix(SHARPS, signature), flats |-> << >>]
    ELSE IF signature < 0 THEN [sharps |-> << >>, flats |-> Prefix(FLATS, 0 - signature)]
    ELSE [sharps |-> << >>, flats |-> << >>]

\* lines 199-204: a document without \midifyable
SkipDocument ==
    /\ pc = "idle"
    /\ started < Len(FileNames)
    /\ started' = started + 1
    /\ UNCHANGED << pc, globalAccidentals, localAccidentals, lists,
                    deltatime, velocity, notes, element, idx, lastTicks, nextTicks,
                    bodyBytes, calls >>

\* line 213: re.search finds no \generalmeter{\meterfrac..} and .group raises
MeterMissing ==
    /\ pc = "idle"
    /\ started < Len(FileNames)
    /\ started' = started + 1
    /\ pc' = "crashed"
    /\ UNCHANGED << globalAccidentals, localAccidentals, lists,
                    deltatime, velocity, notes, element, idx, lastTicks, nextTicks,
                    bodyBytes, calls >>

\* lines 199-231: a midifyable document with a meter; signature is 0 when the
\* document has no \generalsignature.  bodyBytes and element are not read before
\* lines 376 and 232 bind them again.
LoadDocument ==
    /\ pc = "idle"
    /\ started < Len(FileNames)
    /\ started' = started + 1
    /\ \E signature \in Signatures :
           globalAccidentals' = GlobalFromSignature(signature)
    /\ deltatime' = 0
    /\ notes' = << >>
    /\ lists' = << << >> >>
    /\ localAccidentals' = [sharps |-> << >>, flats |-> << >>, explicitNaturals |-> 1]
    /\ velocity' = 64
    /\ idx' = 0
    /\ element' = << >>
    /\ bodyBytes' = << >>
    /\ pc' = "interp"
    /\ UNCHANGED << lastTicks, nextTicks, calls >>

\* the loop over file_map is exhausted
Finish ==
    /\ pc = "idle"
    /\ started = Len(FileNames)
    /\ pc' = "finished"
    /\ UNCHANGED << started, globalAccidentals, localAccidentals,
                    lists, deltatime, velocity, notes, element, idx, lastTicks,
                    nextTicks, bodyBytes, calls >>

(***************************************************************************)
(* The loop over content, lines 232-366.                                   *)
(***************************************************************************)
\* `for element in content` takes the next element
Takes(el, branch) ==
    /\ pc = "interp"
    /\ idx <= MaxElements
    /\ BranchOf[el] = branch
    /\ el \in (IF idx = 0 THEN {LeadingElement} ELSE Vocabulary)
    /\ element' = el
    /\ idx' = idx + 1

\* Note(...) with the start and the duration arguments in each other's place
NewNoteSwapped(pitch, start, duration, dynamics) ==
    [pitch |-> pitch, start |-> duration, duration |-> start,
     sharps |-> globalAccidentals.sharps \o localAccidentals.sharps,
     flats |-> globalAccidentals.flats \o localAccidentals.flats,
     explicitNaturals |-> localAccidentals.explicitNaturals,
     dynamics |-> ClampDynamics(dynamics)]

\* Accidentals.fromGlobalAndLocal and Note.__init__
NewNote(pitch, start, duration, dynamics) ==
    [pitch |-> pitch, start |-> start, duration |-> duration,
     sharps |-> globalAccidentals.sharps \o localAccidentals.sharps,
     flats |-> globalAccidentals.flats \o localAccidentals.flats,
     explicitNaturals |-> localAccidentals.explicitNaturals,
     dynamics |-> ClampDynamics(dynamics)]

\* Accidentals(sharps=[], flats=[], explicitNaturals=[]): a new list object
FreshLocal ==
    /\ lists' = Append(lists, << >>)
    /\ localAccidentals' =
           [sharps |-> << >>, flats |-> << >>, explicitNaturals |-> Len(lists) + 1]

\* lines 233-236
GroupSeparator ==
    \E el \in Elements :
        /\ Takes(el, "group")
        /\ FreshLocal
        /\ velocity' = Recover(velocity)
        /\ UNCHANGED << pc, globalAccidentals, deltatime, notes, beamVars, batchVars >>

\* the measure separators applying the recovery of the group separators
MeasureSeparatorRecovers ==
    \E el \in Elements :
        /\ Takes(el, "measure")
        /\ FreshLocal
        /\ velocity' = Recover(velocity)
        /\ UNCHANGED << pc, globalAccidentals, deltatime, notes, beamVars, batchVars >>

\* lines 237-239
MeasureSeparator ==
    \E el \in Elements :
        /\ Takes(el, "measure")
        /\ FreshLocal
        /\ UNCHANGED << pc, globalAccidentals, deltatime, velocity, notes, beamVars,
                        batchVars >>

\* line 240: the element holds no letter, re.search gives None, .group raises
NoCommandName ==
    \E el \in Elements :
        /\ Takes(el, "nomatch")
        /\ pc' = "crashed"
        /\ UNCHANGED << globalAccidentals, localAccidentals, lists, deltatime,
                        velocity, notes, beamVars, batchVars >>

\* the shared body without the decay that ends each branch
SimpleNoteKeepsVelocity(el, duration) ==
    LET argsPart == ArgsOf[el]
    IN /\ IF Len(argsPart) < 1 \/ AutoPitchRaises(argsPart[1])
          THEN /\ pc' = "crashed"
               /\ UNCHANGED << notes, deltatime, velocity >>
          ELSE /\ notes' = Append(notes,
                       NewNote(AutoPitch(argsPart[1]), deltatime, duration, velocity))
               /\ deltatime' = deltatime + duration
               /\ velocity' = velocity
               /\ pc' = pc
       /\ UNCHANGED << globalAccidentals, localAccidentals, lists, beamVars, batchVars >>

\* the body shared by the branches of lines 242-276
SimpleNote(el, duration) ==
    LET argsPart == ArgsOf[el]
    IN /\ IF Len(argsPart) < 1 \/ AutoPitchRaises(argsPart[1])
          THEN /\ pc' = "crashed"
               /\ UNCHANGED << notes, deltatime, velocity >>
          ELSE /\ notes' = Append(notes,
                       NewNote(AutoPitch(argsPart[1]), deltatime, duration, velocity))
               /\ deltatime' = deltatime + duration
               /\ velocity' = Decay(velocity)
               /\ pc' = pc
       /\ UNCHANGED << globalAccidentals, localAccidentals, lists, beamVars, batchVars >>

Eighth == \E el \in Elements : Takes(el, "eighth") /\ SimpleNote(el, 32)

DottedEighth == \E el \in Elements : Takes(el, "dottedEighth") /\ SimpleNote(el, 48)

Quarter == \E el \in Elements : Takes(el, "quarter") /\ SimpleNote(el, 64)

DottedQuarter == \E el \in Elements : Takes(el, "dottedQuarter") /\ SimpleNote(el, 96)

Half == \E el \in Elements : Takes(el, "half") /\ SimpleNote(el, 128)

DottedHalf == \E el \in Elements : Takes(el, "dottedHalf") /\ SimpleNote(el, 192)

Whole == \E el \in Elements : Takes(el, "whole") /\ SimpleNote(el, 256)

\* lines 277-279
Sharp ==
    \E el \in Elements :
        LET argsPart == ArgsOf[el]
        IN /\ Takes(el, "sh")
           /\ IF Len(argsPart) < 1 \/ AutoPitchRaises(argsPart[1])
              THEN pc' = "crashed" /\ UNCHANGED localAccidentals
              ELSE /\ localAccidentals' = [localAccidentals EXCEPT
                                              !.sharps = Append(@, AutoPitch(argsPart[1]))]
                   /\ pc' = pc
           /\ UNCHANGED << globalAccidentals, lists, deltatime, velocity, notes,
                           beamVars, batchVars >>

\* lines 280-282
Flat ==
    \E el \in Elements :
        LET argsPart == ArgsOf[el]
        IN /\ Takes(el, "fl")
           /\ IF Len(argsPart) < 1 \/ AutoPitchRaises(argsPart[1])
              THEN pc' = "crashed" /\ UNCHANGED localAccidentals
              ELSE /\ localAccidentals' = [localAccidentals EXCEPT
                                              !.flats = Append(@, AutoPitch(argsPart[1]))]
                   /\ pc' = pc
           /\ UNCHANGED << globalAccidentals, lists, deltatime, velocity, notes,
                           beamVars, batchVars >>

\* lines 283-285: the append is on the list object itself
Natural ==
    \E el \in Elements :
        LET argsPart == ArgsOf[el]
        IN /\ Takes(el, "na")
           /\ IF Len(argsPart) < 1 \/ AutoPitchRaises(argsPart[1])
              THEN pc' = "crashed" /\ UNCHANGED lists
              ELSE /\ lists' = [lists EXCEPT ![localAccidentals.explicitNaturals] =
                                                Append(@, AutoPitch(argsPart[1]))]
                   /\ pc' = pc
           /\ UNCHANGED << globalAccidentals, localAccidentals, deltatime, velocity,
                           notes, beamVars, batchVars >>

\* the notes of a chord/tuplet branch, lines 286-338, one argument after the
\* other; rule is "decay" (the running velocity, decayed after each note),
\* "ladder" (the fixed dynamics) or "default" (no dynamics argument)
RECURSIVE ChordFrom(_, _, _, _, _, _, _)
ChordFrom(argsPart, i, count, step, rule, acc, vel) ==
    IF i > count THEN [notes |-> acc, velocity |-> vel, raised |-> FALSE]
    ELSE IF Len(argsPart) < i \/ AutoPitchRaises(argsPart[i])
    THEN [notes |-> acc, velocity |-> vel, raised |-> TRUE]
    ELSE ChordFrom(argsPart, i + 1, count, step, rule,
                   Append(acc, NewNote(AutoPitch(argsPart[i]),
                                       deltatime + (i - 1) * step, step,
                                       IF rule = "decay" THEN vel
                                       ELSE IF rule = "ladder" THEN Ladder[i]
                                       ELSE DefaultDynamics)),
                   IF rule = "decay" THEN Decay(vel) ELSE vel)

\* the chord with the cursor moved on by one step only
ChordOneStep(el, count, step, rule) ==
    LET given == ArgsOf[el]
        argsPart == IF Len(given) = 1 THEN ParseArgs(given[1]) ELSE given
        r == ChordFrom(argsPart, 1, count, step, rule, notes, velocity)
    IN /\ notes' = r.notes
       /\ velocity' = r.velocity
       /\ IF r.raised
          THEN pc' = "crashed" /\ UNCHANGED deltatime
          ELSE pc' = pc /\ deltatime' = deltatime + step
       /\ UNCHANGED << globalAccidentals, localAccidentals, lists, beamVars, batchVars >>

Chord(el, count, step, rule) ==
    LET given == ArgsOf[el]
        argsPart == IF Len(given) = 1 THEN ParseArgs(given[1]) ELSE given
        r == ChordFrom(argsPart, 1, count, step, rule, notes, velocity)
    IN /\ notes' = r.notes
       /\ velocity' = r.velocity
       /\ IF r.raised
          THEN pc' = "crashed" /\ UNCHANGED deltatime
          ELSE pc' = pc /\ deltatime' = deltatime + count * step
       /\ UNCHANGED << globalAccidentals, localAccidentals, lists, beamVars, batchVars >>

Dqb == \E el \in Elements : Takes(el, "Dqb") /\ Chord(el, 2, 32, "decay")

Tqb == \E el \in Elements : Takes(el, "Tqb") /\ Chord(el, 3, 32, "decay")

Qqb == \E el \in Elements : Takes(el, "Qqb") /\ Chord(el, 4, 32, "ladder")

Dqbb == \E el \in Elements : Takes(el, "Dqbb") /\ Chord(el, 2, 16, "default")

Tqbb == \E el \in Elements : Takes(el, "Tqbb") /\ Chord(el, 3, 16, "default")

Qqbb == \E el \in Elements : Takes(el, "Qqbb") /\ Chord(el, 4, 16, "default")

\* int(argsPart[0]) raises: no argument, or not a number
BeamIdRaises(argsPart) == Len(argsPart) < 1 \/ ~IsNumber(argsPart[1])

\* the body shared by the beam declarations, lines 339-347
BeamDeclare(el, immediate, ticks, recover) ==
    LET argsPart == ArgsOf[el]
    IN /\ IF BeamIdRaises(argsPart)
          THEN pc' = "crashed" /\ UNCHANGED << lastTicks, nextTicks, velocity >>
          ELSE LET beam == ToInt(argsPart[1])
               IN /\ IF immediate
                     THEN /\ nextTicks' = TicksImmediateNext(nextTicks, beam, ticks)
                          /\ lastTicks' = TicksImmediateLast(lastTicks, beam, ticks)
                     ELSE /\ nextTicks' = TicksNextNext(nextTicks, beam, ticks)
                          /\ lastTicks' = lastTicks
                  /\ velocity' = IF recover THEN Recover(velocity) ELSE velocity
                  /\ pc' = pc
       /\ UNCHANGED << globalAccidentals, localAccidentals, lists, deltatime, notes,
                       batchVars >>

\* lines 339-340
BeamStart32 == \E el \in Elements : Takes(el, "ib") /\ BeamDeclare(el, TRUE, 32, FALSE)

\* lines 341-342
BeamEnd32 == \E el \in Elements : Takes(el, "tb") /\ BeamDeclare(el, FALSE, 32, FALSE)

\* lines 343-345
BeamStart16 == \E el \in Elements : Takes(el, "ibb") /\ BeamDeclare(el, TRUE, 16, TRUE)

\* lines 346-347
BeamEnd16 == \E el \in Elements : Takes(el, "tbb") /\ BeamDeclare(el, FALSE, 16, FALSE)

\* lines 348-352.  A beam id BeamNote has no entry for reads None: the Note is
\* appended with duration None and `deltatime += None` raises.
BeamNoteQb ==
    \E el \in Elements, n \in JitterSteps :
        LET argsPart == ArgsOf[el]
        IN /\ Takes(el, "qb")
           /\ IF BeamIdRaises(argsPart)
              THEN /\ pc' = "crashed"
                   /\ UNCHANGED << lastTicks, notes, deltatime, velocity >>
              ELSE LET beam == ToInt(argsPart[1])
                       explicitBeamNoteTicks == BeamTicksResult(lastTicks, nextTicks, beam)
                   IN /\ lastTicks' = BeamTicksLast(lastTicks, nextTicks, beam)
                      /\ IF Len(argsPart) < 2 \/ AutoPitchRaises(argsPart[2])
                         THEN /\ pc' = "crashed"
                              /\ UNCHANGED << notes, deltatime, velocity >>
                         ELSE /\ notes' = Append(notes,
                                     NewNote(AutoPitch(argsPart[2]), deltatime,
                                             explicitBeamNoteTicks, velocity))
                              /\ IF explicitBeamNoteTicks = None
                                 THEN /\ pc' = "crashed"
                                      /\ UNCHANGED << deltatime, velocity >>
                                 ELSE /\ deltatime' = deltatime + explicitBeamNoteTicks
                                      /\ velocity' = VelocityStep(velocity, n)
                                      /\ pc' = pc
           /\ UNCHANGED << globalAccidentals, localAccidentals, lists, nextTicks,
                           batchVars >>

\* lines 353-357.  Reading None, `explicitBeamNoteTicks // 2` raises before the
\* Note is made.
BeamNoteQbp ==
    \E el \in Elements, n \in JitterSteps :
        LET argsPart == ArgsOf[el]
        IN /\ Takes(el, "qbp")
           /\ IF BeamIdRaises(argsPart)
              THEN /\ pc' = "crashed"
                   /\ UNCHANGED << lastTicks, notes, deltatime, velocity >>
              ELSE LET beam == ToInt(argsPart[1])
                       explicitBeamNoteTicks == BeamTicksResult(lastTicks, nextTicks, beam)
                       dotted == explicitBeamNoteTicks + (explicitBeamNoteTicks \div 2)
                   IN /\ lastTicks' = BeamTicksLast(lastTicks, nextTicks, beam)
                      /\ IF \/ Len(argsPart) < 2
                            \/ AutoPitchRaises(argsPart[2])
                            \/ explicitBeamNoteTicks = None
                         THEN /\ pc' = "crashed"
                              /\ UNCHANGED << notes, deltatime, velocity >>
                         ELSE /\ notes' = Append(notes,
                                     NewNote(AutoPitch(argsPart[2]), deltatime, dotted,
                                             velocity))
                              /\ deltatime' = deltatime + dotted
                              /\ velocity' = VelocityStep(velocity, n)
                              /\ pc' = pc
           /\ UNCHANGED << globalAccidentals, localAccidentals, lists, nextTicks,
                           batchVars >>

\* the elements that change nothing: the frame of lines 361-366
NoEffect ==
    UNCHANGED << pc, globalAccidentals, localAccidentals, lists, deltatime, velocity,
                 notes, beamVars, batchVars >>

\* the repeat advancing the cursor wherever it stands
RepeatAdvanceAlways(cursor) == 1024

\* line 359: 1024 if deltatime > 0 else 0
RepeatAdvance(cursor) == IF cursor > 0 THEN 1024 ELSE 0

\* lines 358-360
Repeat ==
    \E el \in Elements :
        /\ Takes(el, "repeat")
        /\ deltatime' = deltatime + RepeatAdvance(deltatime)
        /\ UNCHANGED << pc, globalAccidentals, localAccidentals, lists, velocity,
                        notes, beamVars, batchVars >>

\* lines 361-362
Slur == \E el \in Elements : Takes(el, "slur") /\ NoEffect

\* lines 363-364
Skip == \E el \in Elements : Takes(el, "skip") /\ NoEffect

\* lines 365-366: the element is printed
UnknownElement == \E el \in Elements : Takes(el, "unknown") /\ NoEffect

(***************************************************************************)
(* The encoder, lines 367-383.                                             *)
(***************************************************************************)
\* lines 371-378: the bytes of notes[i..], prevNote being the note before
RECURSIVE NotesBytesFrom(_, _, _)
NotesBytesFrom(ns, i, heap) ==
    IF i > Len(ns) THEN << >>
    ELSE ToMidiBytes(ns[i], IF i = 1 THEN NoNote ELSE << ns[i - 1] >>, heap)
         \o NotesBytesFrom(ns, i + 1, heap)

NotesBytes(ns, heap) == NotesBytesFrom(ns, 1, heap)

\* content is exhausted: lines 367-383.  toMidiPitch raises KeyError for a pitch
\* the table does not hold.
EncodeDocument ==
    /\ pc = "interp"
    /\ idx >= 1
    /\ IF \E i \in 1..Len(notes) : ConvRaises(notes[i].pitch)
       THEN pc' = "crashed" /\ UNCHANGED bodyBytes
       ELSE /\ bodyBytes' = NotesBytes(notes, lists)
            /\ pc' = "idle"
    /\ UNCHANGED << started, globalAccidentals, localAccidentals, lists,
                    deltatime, velocity, notes, element, idx, lastTicks, nextTicks,
                    calls >>

Next ==
    \/ SkipDocument
    \/ MeterMissing
    \/ LoadDocument
    \/ Finish
    \/ GroupSeparator
    \/ MeasureSeparator
    \/ NoCommandName
    \/ Eighth
    \/ DottedEighth
    \/ Quarter
    \/ DottedQuarter
    \/ Half
    \/ DottedHalf
    \/ Whole
    \/ Sharp
    \/ Flat
    \/ Natural
    \/ Dqb
    \/ Tqb
    \/ Qqb
    \/ Dqbb
    \/ Tqbb
    \/ Qqbb
    \/ BeamStart32
    \/ BeamEnd32
    \/ BeamStart16
    \/ BeamEnd16
    \/ BeamNoteQb
    \/ BeamNoteQbp
    \/ Repeat
    \/ Slur
    \/ Skip
    \/ UnknownElement
    \/ EncodeDocument

Spec == Init /\ [][Next]_vars

(***************************************************************************)
(* SpecBeam: the three class methods of BeamNote called in any order, the  *)
(* calls and what each returned kept in `calls`.                           *)
(***************************************************************************)
TickValues == { 16, 32 }

interpVars == << pc, started, globalAccidentals, localAccidentals,
                 lists, deltatime, velocity, notes, element, idx, bodyBytes >>

\* BeamNote.beamTicks(beam)
CallBeamTicks ==
    \E beam \in BeamIds :
        /\ Len(calls) < MaxCalls
        /\ lastTicks' = BeamTicksLast(lastTicks, nextTicks, beam)
        /\ nextTicks' = nextTicks
        /\ calls' = Append(calls, [op |-> "beamTicks", beam |-> beam, ticks |-> None,
                                   current |-> DictGet(lastTicks, beam),
                                   result |-> BeamTicksResult(lastTicks, nextTicks, beam)])
        /\ UNCHANGED interpVars

\* BeamNote.ticksImmediate(beam, ticks)
CallTicksImmediate ==
    \E beam \in BeamIds, ticks \in TickValues :
        /\ Len(calls) < MaxCalls
        /\ nextTicks' = TicksImmediateNext(nextTicks, beam, ticks)
        /\ lastTicks' = TicksImmediateLast(lastTicks, beam, ticks)
        /\ calls' = Append(calls, [op |-> "ticksImmediate", beam |-> beam, ticks |-> ticks,
                                   current |-> DictGet(lastTicks, beam), result |-> None])
        /\ UNCHANGED interpVars

\* BeamNote.ticksNext(beam, ticks)
CallTicksNext ==
    \E beam \in BeamIds, ticks \in TickValues :
        /\ Len(calls) < MaxCalls
        /\ nextTicks' = TicksNextNext(nextTicks, beam, ticks)
        /\ lastTicks' = lastTicks
        /\ calls' = Append(calls, [op |-> "ticksNext", beam |-> beam, ticks |-> ticks,
                                   current |-> DictGet(lastTicks, beam), result |-> None])
        /\ UNCHANGED interpVars

NextBeam == CallBeamTicks \/ CallTicksImmediate \/ CallTicksNext

SpecBeam == Init /\ [][NextBeam]_vars

(***************************************************************************)
(* SpecPitch: one call of Pitch.fromNum on an offset; `calls` holds the    *)
(* call and what it gave.                                                  *)
(***************************************************************************)
Offsets == (0 - MaxOffset)..MaxOffset

\* Pitch.fromNum(num)
CallFromNum ==
    /\ calls = << >>
    /\ \E num \in Offsets :
           calls' = << [op |-> "fromNum", num |-> num,
                        raised |-> FromNumRaises(num),
                        result |-> IF FromNumRaises(num) THEN << >> ELSE FromNum(num)] >>
    /\ UNCHANGED << interpVars, beamVars >>

NextPitch == CallFromNum

SpecPitch == Init /\ [][NextPitch]_vars

(***************************************************************************)
(* SpecVlq: one call of Note.startMidiBytes or Note.endMidiBytes on a Note *)
(* whose delta to the previous Note, or whose duration, is the quantity;   *)
(* `calls` holds the call and the bytes it gave.                           *)
(***************************************************************************)
Quantities == 0..MaxQuantity

\* note.startMidiBytes(prevNote), note starting `quantity` ticks after the end
\* of prevNote
CallStartMidiBytes ==
    /\ calls = << >>
    /\ \E quantity \in Quantities :
           LET prevNote == NewNote(FromNum(0), 0, 32, velocity)
               note == NewNote(FromNum(0), 32 + quantity, 32, velocity)
           IN calls' = << [op |-> "startMidiBytes", quantity |-> quantity,
                           bytes |-> StartMidiBytes(note, << prevNote >>)] >>
    /\ UNCHANGED << interpVars, beamVars >>

\* note.endMidiBytes(), the duration of note being `quantity`
CallEndMidiBytes ==
    /\ calls = << >>
    /\ \E quantity \in Quantities :
           LET note == NewNote(FromNum(0), 0, quantity, velocity)
           IN calls' = << [op |-> "endMidiBytes", quantity |-> quantity,
                           bytes |-> EndMidiBytes(note)] >>
    /\ UNCHANGED << interpVars, beamVars >>

NextVlq == CallStartMidiBytes \/ CallEndMidiBytes

SpecVlq == Init /\ [][NextVlq]_vars

(***************************************************************************)
(* SpecJitter: one call of velocity_step; `calls` holds the velocity, the  *)
(* step drawn and the result.                                              *)
(***************************************************************************)
\* every step n / JitterDenominator of [-0.25, 0.25)
AllJitterSteps == (0 - (JitterDenominator \div 4))..((JitterDenominator \div 4) - 1)

\* velocity_step(velocity), random.random() giving the step n / JitterDenominator
CallVelocityStep ==
    /\ calls = << >>
    /\ \E v \in 0..127, n \in AllJitterSteps :
           calls' = << [op |-> "velocity_step", velocity |-> v, step |-> n,
                        result |-> VelocityStep(v, n)] >>
    /\ UNCHANGED << interpVars, beamVars >>

NextJitter == CallVelocityStep

SpecJitter == Init /\ [][NextJitter]_vars

(***************************************************************************)
(* SpecEncoder: the encoder of lines 367-383 on a note list of Notes that  *)
(* follow each other at a gap, under one sharp.                            *)
(***************************************************************************)
GivenGaps == { 0, 127, 128, 1024 }

GivenDurations == { 16, 128, 256 }

GivenDynamics == { 64, 127 }

GivenPitchNums == { 0, 8 }

NoteChoices ==
    [gap : GivenGaps, duration : GivenDurations, dynamics : GivenDynamics,
     num : GivenPitchNums]

\* the note list of the choices: each Note starts `gap` ticks after the end of
\* the Note before it, the first at `gap`
RECURSIVE NotesOfChoices(_, _, _)
NotesOfChoices(choices, i, acc) ==
    IF i > Len(choices) THEN acc
    ELSE LET start == choices[i].gap
                      + (IF i = 1 THEN 0 ELSE acc[i - 1].start + acc[i - 1].duration)
         IN NotesOfChoices(choices, i + 1,
                Append(acc, [pitch |-> FromNum(choices[i].num), start |-> start,
                             duration |-> choices[i].duration,
                             sharps |-> Prefix(SHARPS, 1), flats |-> << >>,
                             explicitNaturals |-> 1,
                             dynamics |-> ClampDynamics(choices[i].dynamics)]))

\* the loop over content has left a note list
GivenNotes ==
    /\ pc = "idle"
    /\ started = 0
    /\ \E count \in 1..MaxNotes : \E choices \in [1..count -> NoteChoices] :
           notes' = NotesOfChoices(choices, 1, << >>)
    /\ pc' = "interp"
    /\ idx' = 1
    /\ started' = 1
    /\ UNCHANGED << globalAccidentals, localAccidentals, lists, deltatime, velocity,
                    element, lastTicks, nextTicks, bodyBytes, calls >>

NextEncoder == GivenNotes \/ EncodeDocument

SpecEncoder == Init /\ [][NextEncoder]_vars

(***************************************************************************)
(* Properties.                                                             *)
(***************************************************************************)
\* the loop over content takes its next element in this step
TakesElement == pc = "interp" /\ idx' = idx + 1

\* the natural list of the local scope
ScopeNaturals == lists[localAccidentals.explicitNaturals]

\* ---- C1 ----------------------------------------------------------------
\* the step that takes cl{2} as the last element of the content
\* \cl{0}\cl{2} under \generalsignature{1}
ScenarioStep ==
    /\ pc = "interp"
    /\ idx = 2
    /\ element = << "c", "l", "{", "0", "}" >>
    /\ element' = << "c", "l", "{", "2", "}" >>
    /\ idx' = 3
    /\ globalAccidentals = GlobalFromSignature(1)

\* the two Notes of the scenario with the given velocities, and the velocity
\* byte of the first encoded event
ScenarioYields(first, second, byte) ==
    /\ pc' = "interp"
    /\ Len(notes') = 2
    /\ notes'[1].pitch = FromNum(0)
    /\ ToMidiPitch(notes'[1], lists') = Conv(FromNum(0))
    /\ notes'[1].start = 0
    /\ notes'[1].duration = 32
    /\ notes'[1].dynamics = first
    /\ notes'[2].pitch = FromNum(2)
    /\ notes'[2].start = 32
    /\ notes'[2].duration = 32
    /\ notes'[2].dynamics = second
    /\ NotesBytes(notes', lists')[4] = byte

\* C1 as stated: the body \generalsignature{1}\startpiece\cl{0}\cl{2} yields
\* two Notes, offset 0 unmodified at tick 0 for 32 ticks with velocity 64 and
\* offset 2 at tick 32 for 32 ticks with velocity 49, and the first encoded
\* event carries the velocity byte 0x40.
C1_ScenarioAsStated == [][ScenarioStep => ScenarioYields(64, 49, 64)]_vars

\* C1 amended: the same two Notes, with the velocities 114 and 87 (the empty
\* element before the first backslash is a group boundary and applies the
\* recovery to the initial 64), and the first event carries the byte 0x72.
C1_ScenarioRecovered == [][ScenarioStep => ScenarioYields(114, 87, 114)]_vars

\* the scenario has been interpreted to its end
C1_Witness ==
    /\ pc = "interp"
    /\ idx = 3
    /\ element = << "c", "l", "{", "2", "}" >>
    /\ globalAccidentals = GlobalFromSignature(1)
    /\ Len(notes) = 2
    /\ notes[1].pitch = << "e" >>
    /\ notes[2].pitch = << "g" >>
    /\ notes[2].start = 32

\* ---- C2 ----------------------------------------------------------------
\* C2: at the start of every document the beam duration state, the local
\* accidental scope, the cursor, the velocity and the note list are what they
\* are at the start of the first document.
C2_FreshAtDocumentStart ==
    (pc = "interp" /\ idx = 0) =>
        /\ lastTicks = (0 :> 32)
        /\ nextTicks = (0 :> 32)
        /\ deltatime = 0
        /\ velocity = 64
        /\ notes = << >>
        /\ localAccidentals.sharps = << >>
        /\ localAccidentals.flats = << >>
        /\ ScopeNaturals = << >>

\* ---- C3 ----------------------------------------------------------------
\* C3: a failure while a document is processed does not end the run while
\* later documents of the batch are still to be processed.
C3_FailureDocumentScoped == pc = "crashed" => started = Len(FileNames)

\* ---- C4 ----------------------------------------------------------------
\* C4: a step of the interpreter or of the encoder leaves every Note of the
\* note list as it is, and the semitone it resolves to as it was.
C4_NotesImmutable ==
    [][(pc = "interp" /\ started' = started) =>
         \A i \in 1..Len(notes) :
            /\ i <= Len(notes')
            /\ notes'[i] = notes[i]
            /\ ~ConvRaises(notes[i].pitch) =>
                   ToMidiPitch(notes'[i], lists') = ToMidiPitch(notes[i], lists)]_vars

\* ---- C5 ----------------------------------------------------------------
\* the element is none of the commands of lines 233-364
Unrecognised(el) == BranchOf[el] \in { "unknown", "nomatch" }

\* C5: taking an element that is not a recognised command appends no Note,
\* leaves the cursor, the velocity and the local scope unchanged and does not
\* abort the document.
C5_UnknownSkipped ==
    [][(TakesElement /\ Unrecognised(element')) =>
         /\ pc' = "interp"
         /\ notes' = notes
         /\ deltatime' = deltatime
         /\ velocity' = velocity
         /\ localAccidentals' = localAccidentals
         /\ lists' = lists]_vars

\* ---- C6 ----------------------------------------------------------------
\* C6: the running velocity and the velocity of every Note of the note list
\* are integers in 0..127.
C6_VelocityInRange ==
    /\ velocity \in 0..127
    /\ \A i \in 1..Len(notes) : notes[i].dynamics \in 0..127

\* a recovery, then a decay and a jitter that raised the velocity again
C6_Witness ==
    /\ pc = "interp"
    /\ BranchOf[element] = "qb"
    /\ Len(notes) >= 2
    /\ notes[1].dynamics = Recover(64)
    /\ velocity > Decay(notes[Len(notes)].dynamics)

\* ---- C7 ----------------------------------------------------------------
\* calls[k] declares a duration for the beam
Declares(k, beam) == calls[k].op # "beamTicks" /\ calls[k].beam = beam

\* calls[k] reads the beam
Reads(k, beam) == calls[k].op = "beamTicks" /\ calls[k].beam = beam

\* the reads of the beam strictly between calls i and j
ReadsBetween(i, j, beam) == { k \in (i + 1)..(j - 1) : Reads(k, beam) }

\* C7 (SpecBeam): for a declaration and a later read of the same beam with
\* no other declaration of it in between, after ticksNext(beam, X) the first
\* read returns the value current before the call and every later read
\* returns X; after ticksImmediate(beam, X) every read returns X.
C7_OneShotRead ==
    \A i \in 1..Len(calls) : \A j \in (i + 1)..Len(calls) :
        ( /\ Declares(i, calls[i].beam)
          /\ Reads(j, calls[i].beam)
          /\ \A k \in (i + 1)..(j - 1) : ~Declares(k, calls[i].beam) )
        => IF calls[i].op = "ticksNext" /\ ReadsBetween(i, j, calls[i].beam) = {}
           THEN calls[j].result = calls[i].current
           ELSE calls[j].result = calls[i].ticks

\* ticksNext(0, 16) while 32 is current, then three reads
C7_Witness ==
    /\ Len(calls) = 4
    /\ calls[1].op = "ticksNext" /\ calls[1].beam = 0 /\ calls[1].ticks = 16
    /\ \A k \in 2..4 : Reads(k, 0)
    /\ calls[2].result = 32
    /\ calls[3].result = 16
    /\ calls[4].result = 16

\* ---- C8 ----------------------------------------------------------------
\* the Notes the step appends
Appended == (Len(notes) + 1)..Len(notes')

\* C8: `na` puts its letter into the natural list of the local scope; the
\* list keeps its letters until a group or measure boundary, which makes the
\* list of the scope empty; no list loses a letter while its document is
\* processed; and a Note appended on a letter of the scope's list resolves to
\* the table value, while one on a letter that is not in it resolves by the
\* key signature (a sharp one above, a flat one below).
C8_NaturalOverrides ==
    [][TakesElement =>
         /\ (BranchOf[element'] = "na" /\ pc' = "interp") =>
                InList(AutoPitch(ArgsOf[element'][1]),
                       lists'[localAccidentals'.explicitNaturals])
         /\ BranchOf[element'] \notin { "group", "measure" } =>
                localAccidentals'.explicitNaturals = localAccidentals.explicitNaturals
         /\ BranchOf[element'] \in { "group", "measure" } =>
                lists'[localAccidentals'.explicitNaturals] = << >>
         /\ \A k \in 1..Len(lists) :
                /\ k <= Len(lists')
                /\ \A m \in 1..Len(lists[k]) : InList(lists[k][m], lists'[k])
         /\ \A i \in Appended :
                ~ConvRaises(notes'[i].pitch) =>
                    /\ InList(notes'[i].pitch, ScopeNaturals) =>
                           ToMidiPitch(notes'[i], lists') = Conv(notes'[i].pitch)
                    /\ ( /\ ~InList(notes'[i].pitch, ScopeNaturals)
                         /\ InList(notes'[i].pitch, globalAccidentals.sharps) ) =>
                           ToMidiPitch(notes'[i], lists') = Conv(notes'[i].pitch) + 1
                    /\ ( /\ ~InList(notes'[i].pitch, ScopeNaturals)
                         /\ InList(notes'[i].pitch, globalAccidentals.flats)
                         /\ ~InList(notes'[i].pitch, localAccidentals.sharps) ) =>
                           ToMidiPitch(notes'[i], lists') = Conv(notes'[i].pitch) - 1]_vars

\* under one sharp, a Note on the sharpened letter after `na` on that letter
C8_Witness ==
    /\ pc = "interp"
    /\ Len(notes) >= 1
    /\ InList(notes[Len(notes)].pitch, globalAccidentals.sharps)
    /\ InList(notes[Len(notes)].pitch, ScopeNaturals)
    /\ notes[Len(notes)].explicitNaturals = localAccidentals.explicitNaturals
    /\ ToMidiPitch(notes[Len(notes)], lists) = Conv(notes[Len(notes)].pitch)

\* ---- C9 ----------------------------------------------------------------
\* C9: while no exception has left main, the start ticks of the note list do
\* not decrease in list order and every duration is a positive integer.
C9_StartsAndDurations ==
    pc # "crashed" =>
        \A i \in 1..Len(notes) :
            /\ notes[i].duration \in Nat \ { 0 }
            /\ i > 1 => notes[i - 1].start <= notes[i].start

\* a beam note after another Note
C9_Witness ==
    /\ pc = "interp"
    /\ BranchOf[element] \in { "qb", "qbp" }
    /\ Len(notes) >= 2
    /\ notes[Len(notes)].start > 0
    /\ notes[Len(notes)].duration \in { 16, 24, 32, 48 }

\* ---- C10 ---------------------------------------------------------------
\* C10: a repeat marker leaves a cursor of 0 at 0 and moves any other cursor
\* on by 1024; it appends no Note and leaves the velocity and both
\* accidental scopes unchanged.
C10_Repeat ==
    [][(TakesElement /\ BranchOf[element'] = "repeat") =>
         /\ deltatime' = (IF deltatime = 0 THEN 0 ELSE deltatime + 1024)
         /\ pc' = "interp"
         /\ notes' = notes
         /\ velocity' = velocity
         /\ globalAccidentals' = globalAccidentals
         /\ localAccidentals' = localAccidentals
         /\ lists' = lists]_vars

\* a repeat marker after one Note of 32 ticks
C10_Witness ==
    /\ pc = "interp"
    /\ BranchOf[element] = "repeat"
    /\ Len(notes) = 1
    /\ deltatime = notes[1].duration + 1024

\* ---- C11 ---------------------------------------------------------------
\* the offsets whose letter the table of toMidiPitch holds: 'A' (the lowest
\* upper-case letter, 13 letters and the gap of 5 below 'N') to 'z'
SupportedOffsets == (Ord("A") - Ord("N") - 5)..(Ord("z") - Ord("e"))

\* C11 (SpecPitch): Pitch.fromNum raises for every offset outside the
\* supported range and returns a letter of the table for every offset in it.
C11_FromNumRange ==
    \A k \in 1..Len(calls) :
        calls[k].op = "fromNum" =>
            IF calls[k].num \in SupportedOffsets
            THEN /\ ~calls[k].raised
                 /\ Len(calls[k].result) = 1
                 /\ InList(calls[k].result[1], ConvLetters)
            ELSE calls[k].raised

\* ---- C12 ---------------------------------------------------------------
\* the standard MIDI variable-length quantity: every byte but the last has
\* the continuation bit 0x80 set, the last has it clear
VlqWellFormed(bytes) ==
    /\ Len(bytes) >= 1
    /\ \A i \in 1..Len(bytes) : bytes[i] \in 0..255
    /\ \A i \in 1..(Len(bytes) - 1) : bytes[i] >= 128
    /\ bytes[Len(bytes)] < 128

\* the standard decoder: big-endian groups of 7 bits
RECURSIVE VlqDecodeFrom(_, _, _)
VlqDecodeFrom(bytes, i, acc) ==
    IF i > Len(bytes) THEN acc
    ELSE VlqDecodeFrom(bytes, i + 1, 128 * acc + (bytes[i] % 128))

VlqDecode(bytes) == VlqDecodeFrom(bytes, 1, 0)

\* C12 (SpecVlq): the bytes the Note-On delta encoder and the Note-Off
\* duration encoder give for a quantity are a well-formed variable-length
\* quantity that decodes to it, and a quantity of 0..127 is one byte.
C12_VlqRoundTrip ==
    \A k \in 1..Len(calls) :
        calls[k].op \in { "startMidiBytes", "endMidiBytes" } =>
            /\ VlqWellFormed(calls[k].bytes)
            /\ VlqDecode(calls[k].bytes) = calls[k].quantity
            /\ calls[k].quantity <= 127 => Len(calls[k].bytes) = 1

\* the first quantity of three bytes, from either encoder
C12_Witness ==
    /\ Len(calls) = 1
    /\ calls[1].op \in { "startMidiBytes", "endMidiBytes" }
    /\ calls[1].quantity = 16384
    /\ calls[1].bytes = << 129, 128, 0 >>

\* ---- C13 ---------------------------------------------------------------
\* the table of the simple duration commands
SimpleDurations ==
    << [names |-> { << "c", "l" >>, << "c", "u" >>, << "c", "a" >> }, ticks |-> 32],
       [names |-> { << "c", "l", "p" >>, << "c", "u", "p" >>, << "c", "a", "p" >> },
        ticks |-> 48],
       [names |-> { << "q", "l" >>, << "q", "u" >>, << "q", "a" >> }, ticks |-> 64],
       [names |-> { << "q", "l", "p" >>, << "q", "u", "p" >>, << "q", "a", "p" >> },
        ticks |-> 96],
       [names |-> { << "h", "l" >>, << "h", "u" >>, << "h", "a" >> }, ticks |-> 128],
       [names |-> { << "h", "l", "p" >>, << "h", "u", "p" >>, << "h", "a", "p" >> },
        ticks |-> 192],
       [names |-> { << "w", "h" >> }, ticks |-> 256] >>

\* the element is a command: neither a boundary token nor without a letter
IsCommand(el) == BranchOf[el] \notin { "group", "measure", "nomatch" }

IsSimpleDuration(el) ==
    IsCommand(el) /\ \E r \in 1..Len(SimpleDurations) :
                         CommandName(el) \in SimpleDurations[r].names

SimpleDuration(el) ==
    SimpleDurations[CHOOSE r \in 1..Len(SimpleDurations) :
                        CommandName(el) \in SimpleDurations[r].names].ticks

\* the table duration of every element, 0 for the elements outside the table
SimpleTicksOf ==
    [el \in Elements |-> IF IsSimpleDuration(el) THEN SimpleDuration(el) ELSE 0]

\* floor(v / 1.3), as the integer it names
FloorOfDecay(v) == CHOOSE k \in 0..v : 13 * k <= 10 * v /\ 10 * v < 13 * (k + 1)

\* C13: a simple duration command that completes appends exactly one Note,
\* at the cursor, with the table duration and the running velocity, moves the
\* cursor on by the table duration, sets the velocity to floor(v / 1.3), and
\* leaves the local scope and the beam state unchanged.
C13_SimpleDuration ==
    [][(TakesElement /\ SimpleTicksOf[element'] > 0 /\ pc' = "interp") =>
         /\ Len(notes') = Len(notes) + 1
         /\ SubSeq(notes', 1, Len(notes)) = notes
         /\ notes'[Len(notes')].start = deltatime
         /\ notes'[Len(notes')].duration = SimpleTicksOf[element']
         /\ notes'[Len(notes')].dynamics = velocity
         /\ deltatime' = deltatime + SimpleTicksOf[element']
         /\ velocity' = FloorOfDecay(velocity)
         /\ localAccidentals' = localAccidentals
         /\ lists' = lists
         /\ lastTicks' = lastTicks
         /\ nextTicks' = nextTicks]_vars

\* a dotted half after another Note
C13_Witness ==
    /\ pc = "interp"
    /\ SimpleTicksOf[element] = 192
    /\ Len(notes) >= 2
    /\ notes[Len(notes)].duration = 192
    /\ notes[Len(notes)].start > 0
    /\ deltatime = notes[Len(notes)].start + 192

\* ---- C14 ---------------------------------------------------------------
\* the chord/tuplet commands: the number of pitches and the ticks of a step
ChordCommands ==
    << [names |-> { << "D", "q", "b", "l" >>, << "D", "q", "b", "u" >> },
        count |-> 2, step |-> 32],
       [names |-> { << "T", "q", "b", "l" >>, << "T", "q", "b", "u" >> },
        count |-> 3, step |-> 32],
       [names |-> { << "Q", "q", "b", "l" >>, << "Q", "q", "b", "u" >> },
        count |-> 4, step |-> 32],
       [names |-> { << "D", "q", "b", "b", "l" >>, << "D", "q", "b", "b", "u" >> },
        count |-> 2, step |-> 16],
       [names |-> { << "T", "q", "b", "b", "l" >>, << "T", "q", "b", "b", "u" >> },
        count |-> 3, step |-> 16],
       [names |-> { << "Q", "q", "b", "b", "l" >>, << "Q", "q", "b", "b", "u" >> },
        count |-> 4, step |-> 16] >>

IsChord(el) ==
    IsCommand(el) /\ \E r \in 1..Len(ChordCommands) :
                         CommandName(el) \in ChordCommands[r].names

ChordOf(el) ==
    ChordCommands[CHOOSE r \in 1..Len(ChordCommands) :
                      CommandName(el) \in ChordCommands[r].names]

\* the velocity after k decays
RECURSIVE DecayedTimes(_, _)
DecayedTimes(v, k) == IF k = 0 THEN v ELSE DecayedTimes(FloorOfDecay(v), k - 1)

\* the fixed velocities of the 4-note variant
FixedVelocities == << 127, 96, 76, 64 >>

\* a chord/tuplet command is taken and completes
ChordStep == TakesElement /\ IsChord(element') /\ pc' = "interp"

\* C14: at both granularities, the 4-note chord gives its Notes the
\* velocities 127, 96, 76, 64 and leaves the running velocity unchanged; the
\* 2- and 3-note chords give each Note the running velocity and decay it
\* after each Note.
C14_ChordVelocities ==
    [][ChordStep =>
         LET count == ChordOf(element').count
         IN /\ Len(notes') = Len(notes) + count
            /\ IF count = 4
               THEN /\ \A i \in 1..count :
                          notes'[Len(notes) + i].dynamics = FixedVelocities[i]
                    /\ velocity' = velocity
               ELSE /\ \A i \in 1..count :
                          notes'[Len(notes) + i].dynamics = DecayedTimes(velocity, i - 1)
                    /\ velocity' = DecayedTimes(velocity, count)]_vars

\* ---- C15 ---------------------------------------------------------------
\* the argument groups of a text: a brace-delimited group, braces nesting,
\* is one argument (the text between its braces), any other character is an
\* argument of its own
RECURSIVE GroupsFrom(_, _, _, _, _)
GroupsFrom(text, i, groups, current, depth) ==
    IF i > Len(text) THEN groups
    ELSE IF text[i] = "{" THEN
        GroupsFrom(text, i + 1, groups,
                   IF depth = 0 THEN current ELSE Append(current, text[i]), depth + 1)
    ELSE IF text[i] = "}" THEN
        IF depth = 1
        THEN GroupsFrom(text, i + 1, Append(groups, current), << >>, 0)
        ELSE GroupsFrom(text, i + 1, groups, Append(current, text[i]), depth - 1)
    ELSE IF depth > 0
        THEN GroupsFrom(text, i + 1, groups, Append(current, text[i]), depth)
    ELSE GroupsFrom(text, i + 1, Append(groups, << text[i] >>), current, depth)

Groups(text) == GroupsFrom(text, 1, << >>, << >>, 0)

\* the pitches a chord/tuplet command is given: its arguments, or the
\* arguments packed in its one bracketed argument
GivenPitches(el) ==
    LET given == Groups(Drop(el, Len(CommandName(el))))
    IN IF Len(given) = 1 THEN Groups(given[1]) ELSE given

\* the command is given its count of pitches, and fromNum accepts each
WellFormedChord(el) ==
    /\ IsChord(el)
    /\ Len(GivenPitches(el)) = ChordOf(el).count
    /\ \A i \in 1..Len(GivenPitches(el)) : ~AutoPitchRaises(GivenPitches(el)[i])

\* C15: a chord/tuplet command with count pitches and step s appends
\* exactly count Notes, the i-th (from 0) on the i-th pitch at the cursor +
\* i*s with duration s, and moves the cursor on by count*s, whether the
\* pitches are packed in one bracketed argument or given separately.
C15_ChordTiming ==
    [][(TakesElement /\ WellFormedChord(element')) =>
         LET count == ChordOf(element').count
             s == ChordOf(element').step
         IN /\ pc' = "interp"
            /\ Len(notes') = Len(notes) + count
            /\ SubSeq(notes', 1, Len(notes)) = notes
            /\ \A i \in 0..(count - 1) :
                   /\ notes'[Len(notes) + i + 1].pitch =
                          AutoPitch(GivenPitches(element')[i + 1])
                   /\ notes'[Len(notes) + i + 1].start = deltatime + i * s
                   /\ notes'[Len(notes) + i + 1].duration = s
            /\ deltatime' = deltatime + count * s]_vars

\* ---- C16 ---------------------------------------------------------------
\* the plain group separators and the bare measure/line separators
PlainGroupSeparators ==
    { << >>, << "n", "o", "t", "e", "s" >>, << "n", "o", "t", "e", "s", "p" >>,
      << "n", "n", "o", "t", "e", "s" >>, << "n", "n", "n", "o", "t", "e", "s" >> }

BareMeasureSeparators ==
    { << "e", "n" >>, << "x", "b", "a", "r" >>,
      << "a", "l", "a", "l", "i", "g", "n", "e" >> }

\* the boundary family of every element
BoundaryOf ==
    [el \in Elements |->
        IF Lower(el) \in PlainGroupSeparators THEN "group"
        ELSE IF Lower(el) \in BareMeasureSeparators THEN "measure"
        ELSE "none"]

\* floor(v + 0.8*(127 - v)), as the integer it names
FloorOfRecovery(v) ==
    CHOOSE k \in 0..127 : /\ 10 * k <= 10 * v + 8 * (127 - v)
                          /\ 10 * v + 8 * (127 - v) < 10 * (k + 1)

\* C16: taking a group or measure boundary token leaves the local scope
\* empty, appends no Note and does not move the cursor; a plain group
\* separator sets the velocity to floor(v + 0.8*(127 - v)), a bare
\* measure/line separator leaves it unchanged.
C16_Boundary ==
    [][(TakesElement /\ BoundaryOf[element'] # "none") =>
         /\ pc' = "interp"
         /\ localAccidentals'.sharps = << >>
         /\ localAccidentals'.flats = << >>
         /\ lists'[localAccidentals'.explicitNaturals] = << >>
         /\ notes' = notes
         /\ deltatime' = deltatime
         /\ velocity' = IF BoundaryOf[element'] = "group"
                        THEN FloorOfRecovery(velocity)
                        ELSE velocity]_vars

\* a group separator after a first Note: the velocity the Note left decayed
\* has recovered
C16_Witness ==
    /\ pc = "interp"
    /\ Lower(element) = << "n", "o", "t", "e", "s" >>
    /\ Len(notes) = 1
    /\ deltatime = notes[1].duration
    /\ ScopeNaturals = << >>
    /\ velocity = FloorOfRecovery(FloorOfDecay(notes[1].dynamics))
    /\ velocity > FloorOfDecay(notes[1].dynamics)

\* ---- C17 ---------------------------------------------------------------
\* floor(a / b) for b > 0, as the integer it names
FloorOfQuotient(a, b) == CHOOSE k \in 0..256 : b * k <= a /\ a < b * (k + 1)

\* C17 (SpecJitter): with v' = floor(v / 1.3) and the offset
\* s = n / JitterDenominator, a positive s gives floor(v' + s*(127 - v')),
\* which is at least v'; any other s pushes the velocity down, to at most
\* v'.
C17_Jitter ==
    \A k \in 1..Len(calls) :
        calls[k].op = "velocity_step" =>
            LET decayed == FloorOfDecay(calls[k].velocity)
                n == calls[k].step
            IN IF n > 0
               THEN /\ calls[k].result =
                           FloorOfQuotient(JitterDenominator * decayed + n * (127 - decayed),
                                           JitterDenominator)
                    /\ calls[k].result >= decayed
               ELSE calls[k].result <= decayed

\* ---- C18 ---------------------------------------------------------------
\* the variable-length quantity of a value: the groups above the lowest with
\* the continuation bit
RECURSIVE VlqHigh(_)
VlqHigh(value) ==
    IF value < 128 THEN << value + 128 >>
    ELSE VlqHigh(value \div 128) \o << (value % 128) + 128 >>

Vlq(value) ==
    IF value < 128 THEN << value >> ELSE VlqHigh(value \div 128) \o << value % 128 >>

\* [VLQ delta][0x90][pitch][velocity][VLQ duration][0x80][pitch][velocity] of
\* the Notes from the i-th on
RECURSIVE LoweredFrom(_, _, _)
LoweredFrom(ns, i, heap) ==
    IF i > Len(ns) THEN << >>
    ELSE LET delta == IF i = 1 THEN 0
                      ELSE ns[i].start - (ns[i - 1].start + ns[i - 1].duration)
             pitch == ToMidiPitch(ns[i], heap)
         IN Vlq(delta) \o << 144, pitch, ns[i].dynamics >>
            \o Vlq(ns[i].duration) \o << 128, pitch, ns[i].dynamics >>
            \o LoweredFrom(ns, i + 1, heap)

\* C18 (SpecEncoder): the bytes the encoder gives for a note list are, Note
\* after Note in list order, the delta to the end of the Note before (0 for
\* the first), Note-On, pitch, velocity, the duration, Note-Off and the same
\* pitch and velocity.
C18_EncoderLayout ==
    [][(pc = "interp" /\ pc' = "idle") =>
         bodyBytes' = LoweredFrom(notes, 1, lists)]_vars

\* two Notes have been encoded, the second on the sharpened letter 1024 ticks
\* after the end of the first, which lasts 128 ticks
C18_Witness ==
    /\ pc = "idle"
    /\ Len(notes) = 2
    /\ notes[1].start = 0
    /\ notes[1].duration = 128
    /\ notes[2].start = 128 + 1024
    /\ notes[2].pitch = << "m" >>
    /\ bodyBytes = << 0, 144, 52, 64, 129, 0, 128, 52, 64,
                      136, 0, 144, 66, 127, 16, 128, 66, 127 >>

\* ---- C19 ---------------------------------------------------------------
\* the end of the last Note of a note list, 0 for the empty list
LastEnd(ns) == IF ns = << >> THEN 0 ELSE ns[Len(ns)].start + ns[Len(ns)].duration

RepeatMultiple(ticks) == ticks >= 0 /\ ticks % 1024 = 0

\* every Note after the first starts at the end of the Note before it or a
\* multiple of 1024 later, and so does the cursor of a running document
Contiguous(ns, cursor, running) ==
    /\ \A i \in 2..Len(ns) :
           RepeatMultiple(ns[i].start - (ns[i - 1].start + ns[i - 1].duration))
    /\ (running /\ ns # << >>) => RepeatMultiple(cursor - LastEnd(ns))

\* C19: in the note list every Note after the first starts at the end of the
\* Note before it or a positive multiple of 1024 later, one 1024 for each
\* repeat marker in between and nothing for any other element; Notes never
\* overlap and every delta of the encoder is a non-negative multiple of 1024.
C19_NoteGaps ==
    [][/\ Contiguous(notes', deltatime', pc' = "interp")
       /\ (TakesElement /\ notes # << >>) =>
              IF Len(notes') > Len(notes)
              THEN notes'[Len(notes) + 1].start = deltatime
              ELSE deltatime' = deltatime
                                + (IF BranchOf[element'] = "repeat" THEN 1024 ELSE 0)]_vars

\* a repeat marker after the two Notes of a chord, the second at the end of
\* the first
C19_Witness ==
    /\ pc = "interp"
    /\ BranchOf[element] = "repeat"
    /\ Len(notes) = 2
    /\ notes[2].start = notes[1].start + notes[1].duration
    /\ deltatime = LastEnd(notes) + 1024

\* ---- C20 ---------------------------------------------------------------
\* the beam has had an immediate declaration, or is the beam 0 of lines 9-10
DeclaredImmediate(beam, upTo) ==
    \/ beam = 0
    \/ \E k \in 1..upTo : calls[k].op = "ticksImmediate" /\ calls[k].beam = beam

BeamDurations == { 16, 32 }

\* both durations of every beam declared immediately are defined, and so was
\* what every read after the declaration returned
BeamsDefined ==
    /\ \A beam \in BeamIds :
           DeclaredImmediate(beam, Len(calls)) =>
               /\ DictGet(lastTicks, beam) \in BeamDurations
               /\ DictGet(nextTicks, beam) \in BeamDurations
    /\ \A j \in 1..Len(calls) :
           (calls[j].op = "beamTicks" /\ DeclaredImmediate(calls[j].beam, j - 1)) =>
               calls[j].result \in BeamDurations

\* the call of the step leaves both durations of every other beam as they were
OtherBeamsKept ==
    Len(calls') = Len(calls) + 1 =>
        \A beam \in BeamIds \ { calls'[Len(calls')].beam } :
            /\ DictGet(lastTicks', beam) = DictGet(lastTicks, beam)
            /\ DictGet(nextTicks', beam) = DictGet(nextTicks, beam)

\* C20 (SpecBeam): beam 0 from the start, and any beam from its first
\* ticksImmediate on, has a current and a next duration of 16 or 32 after
\* every further call on any beam, so every later read of it returns 16 or 32;
\* and a call on one beam changes no duration of another beam.
C20_BeamsDefined == BeamsDefined /\ [][BeamsDefined' /\ OtherBeamsKept]_vars

\* beam 1 read before any declaration, declared immediately at 16, given 32
\* as its next duration and read again, beam 0 as it was from the start
C20_Witness ==
    /\ Len(calls) = 4
    /\ Reads(1, 1) /\ calls[1].result = None
    /\ calls[2].op = "ticksImmediate" /\ calls[2].beam = 1 /\ calls[2].ticks = 16
    /\ calls[3].op = "ticksNext" /\ calls[3].beam = 1 /\ calls[3].ticks = 32
    /\ Reads(4, 1) /\ calls[4].result = 16
    /\ DictGet(lastTicks, 1) = 32
    /\ DictGet(lastTicks, 0) = 32 /\ DictGet(nextTicks, 0) = 32

====
